---- MODULE Spec2Model ----
(***************************************************************************)
(* Warehouse / order-fulfilment core of src/src/warehouse/warehouse.route.ts *)
(* (placeBooksOnShelf, placeOrder, fulfilOrder) over the WarehouseData      *)
(* store.  Every await of the source is a separate step, so that calls can  *)
(* be run one at a time (Spec), one at a time over a store whose operations *)
(* may fail (SpecFault), or interleaved (SpecConc).                         *)
(* SpecShelf runs placements only; SpecBooks runs createBook and updateBook *)
(* of src/src/books over the books collection.                             *)
(*                                                                         *)
(* Book identifiers are ObjectId hex strings (BookID, books.route.ts), so   *)
(* `book in order` is membership in the order's own keys.                   *)
(***************************************************************************)
EXTENDS Integers, Sequences, FiniteSets, TLC

\* ---------------------------------------------------------------- bounds
MaxLines == 2       \* longest list of fulfilment lines submitted
MaxQty == 2         \* largest numberOfBooks of a line or a placement
NegQty == 1         \* how far below zero numberOfBooks of a line or a placement goes
MaxOrderLen == 2    \* longest list of books given to placeOrder
MaxOrders == 1      \* orders placed in a run of calls taken one at a time
ConcOrders == 1     \* orders placed in interleaved runs
ConcOrderLen == 1   \* longest list of books given to placeOrder in interleaved runs
ConcQty == 1        \* largest numberOfBooks in interleaved runs
MaxPlaced == 2      \* copies of one book placed on shelves, in total
ConcLines == 1      \* longest list of fulfilment lines in interleaved runs
MaxBooks == 2       \* books created in the catalog
PairOrders == 2     \* orders placed before two fulfilments run interleaved

Books == {"X", "Y"}
Shelves == {"A", "B"}
Procs == {1, 2}
OrderIds == 1..(MaxOrders + ConcOrders + PairOrders + 1)
ConcBooks == {"X"}
ConcShelves == {"A"}
Qtys == (0 - NegQty)..MaxQty

\* ------------------------------------------------------- failure kinds
\* The messages thrown by the source, under the names the spec gives them.
OrderNotFound == "no such order"
UnknownBookInOrder == "one of the books is not in the order"
QuantityMismatch == "incorrect number of books"
InsufficientStock == "not enough copies on given shelves"
ValidationError == "Can't place less than 0 books on a shelf"
ServerError == "store error"
\* The message every controller throws, with status 500, when its core
\* call throws.
ServerErrorResponse == "Server error"
Ok == "ok"
None == "none"

\* --------------------------------------------------------- input sets
SeqsUpTo(S, n) == UNION {[1..k -> S] : k \in 0..n}

\* The fulfilment lines over books Bk, shelves Sh and quantities Q.
FulfilBookItem(Bk, Sh, Q) == [book : Bk, shelf : Sh, numberOfBooks : Q]

EmptyMap == <<>>

\* ------------------------------------------------------ pure functions
\* placeOrder's loop recording each book once: order[book] = 1
Tally_Once(books, i, order) ==
  [b \in DOMAIN order \cup {books[j] : j \in i..Len(books)} |-> 1]

\* placeOrder's loop: order[book] = 1 + (order[book] ?? 0)
RECURSIVE Tally(_, _, _)
Tally(books, i, order) ==
  IF i > Len(books) THEN order
  ELSE LET book == books[i]
           old == IF book \in DOMAIN order THEN order[book] ELSE 0
       IN Tally(books, i + 1,
                [b \in DOMAIN order \cup {book} |->
                   IF b = book THEN 1 + old ELSE order[b]])

\* Line 112 taking every book to be in the order.
InOrder_Always(book, order) == TRUE

\* Line 112: book in order
InOrder(book, order) == book \in DOMAIN order

\* Line 127 with the sign of the line's quantity wrong.
NewCopiesOnShelf_Added(currentCopiesOnShelf, numberOfBooks) ==
  currentCopiesOnShelf + numberOfBooks

\* Line 127: newCopiesOnShelf = currentCopiesOnShelf - numberOfBooks
NewCopiesOnShelf(currentCopiesOnShelf, numberOfBooks) ==
  currentCopiesOnShelf - numberOfBooks

\* Line 128 with the stock check left out.
Insufficient_Never(newCopiesOnShelf) == FALSE

\* Line 128: newCopiesOnShelf < 0
Insufficient(newCopiesOnShelf) == newCopiesOnShelf < 0

\* Line 60 with the check of the sign left out.
NegativePlacement_Never(numberOfBooks) == FALSE

\* Line 60: numberOfBooks < 0
NegativePlacement(numberOfBooks) == numberOfBooks < 0

\* Line 64 with the count set to the number given.
PlacedCount_Overwrite(current, numberOfBooks) == numberOfBooks

\* Line 64: current + numberOfBooks
PlacedCount(current, numberOfBooks) == current + numberOfBooks

\* Lines 72-79 without the test of the count.
BookInfo_All(copies) == copies

\* Lines 72-79: the shelves of copies whose number is > 0.
BookInfo(copies) ==
  [shelf \in {sh \in DOMAIN copies : copies[sh] > 0} |-> copies[shelf]]

\* The catch of every controller method: whatever the core call throws
\* becomes status 500 and 'Server error'.
ControllerResponse(outcome) ==
  IF outcome = Ok THEN Ok ELSE ServerErrorResponse

\* fulfilOrder's first loop: membership of every line's book, and the
\* per-book sums of numberOfBooks.  ok = FALSE is the throw.
RECURSIVE RemovedCount(_, _, _, _)
RemovedCount(order, lines, i, removedCount) ==
  IF i > Len(lines) THEN [ok |-> TRUE, removedCount |-> removedCount]
  ELSE LET book == lines[i].book
           old == IF book \in DOMAIN removedCount THEN removedCount[book] ELSE 0
       IN IF ~InOrder(book, order)
          THEN [ok |-> FALSE, removedCount |-> removedCount]
          ELSE RemovedCount(order, lines, i + 1,
                 [b \in DOMAIN removedCount \cup {book} |->
                    IF b = book THEN lines[i].numberOfBooks + old
                    ELSE removedCount[b]])

\* The second loop accepting a fulfilment that brings at least the
\* required quantity.
CountsDiffer_Fewer(order, removedCount) ==
  \E book \in DOMAIN order :
     \/ book \notin DOMAIN removedCount
     \/ removedCount[book] < order[book]

\* The second loop comparing only the books some line names.
CountsDiffer_LinedOnly(order, removedCount) ==
  \E book \in DOMAIN order \cap DOMAIN removedCount :
     removedCount[book] # order[book]

\* fulfilOrder's second loop: removedCount[book] !== order[book] for some
\* book of the order (a book without a line has no removedCount entry).
CountsDiffer(order, removedCount) ==
  \E book \in DOMAIN order :
     \/ book \notin DOMAIN removedCount
     \/ removedCount[book] # order[book]

\* The validation with the quantity loop run first, over sums taken
\* from the lines whose book is in the order.
RECURSIVE SumsInOrder(_, _, _, _)
SumsInOrder(order, lines, i, removedCount) ==
  IF i > Len(lines) THEN removedCount
  ELSE LET book == lines[i].book
           old == IF book \in DOMAIN removedCount THEN removedCount[book] ELSE 0
       IN SumsInOrder(order, lines, i + 1,
            IF ~InOrder(book, order) THEN removedCount
            ELSE [b \in DOMAIN removedCount \cup {book} |->
                    IF b = book THEN lines[i].numberOfBooks + old
                    ELSE removedCount[b]])

Validate_CountsFirst(order, lines) ==
  IF CountsDiffer(order, SumsInOrder(order, lines, 1, EmptyMap)) THEN QuantityMismatch
  ELSE IF ~RemovedCount(order, lines, 1, EmptyMap).ok THEN UnknownBookInOrder
  ELSE Ok

\* The outcome of the synchronous validation of lines 110-122.
Validate(order, lines) ==
  LET r == RemovedCount(order, lines, 1, EmptyMap)
  IN IF ~r.ok THEN UnknownBookInOrder
     ELSE IF CountsDiffer(order, r.removedCount) THEN QuantityMismatch
     ELSE Ok

\* ------------------------------------------------------------- store
\* WarehouseData (warehouse_data.ts is not among the sources).
GetCopiesOnShelf(st, book, shelf) == st[<<book, shelf>>]

PlaceBookOnShelfStore(st, book, shelf, newCount) ==
  [st EXCEPT ![<<book, shelf>>] = newCount]

\* getCopies answers every shelf that holds a record of the book, the
\* emptied ones included.
GetCopies(st, book) == [shelf \in Shelves |-> st[<<book, shelf>>]]

\* listOrders answers every stored order with its books.
ListOrdersStore(os) == os

\* getOrder answers false for an unknown identifier.
HasOrder(os, orderId) == orderId \in DOMAIN os

GetOrder(os, orderId) == os[orderId]

\* placeBookOnShelf refuses a negative count.
StoreRejects(newCount) == newCount < 0

RemoveOrder(os, orderId) == [o \in DOMAIN os \ {orderId} |-> os[o]]

PlaceOrderStore(os, id, order) ==
  [o \in DOMAIN os \cup {id} |-> IF o = id THEN order ELSE os[o]]

\* ------------------------------------------------------- books catalog
\* A BookID is an ObjectId hex string: n >= 1 stands for the n-th
\* identifier the collection generates, MalformedId for the string
\* 'invalid-id', NonHexId for a string of 24 characters that are not all
\* hex digits.
MalformedId == 0
NonHexId == MalformedId - 1
BookValues == {"original", "updated"}
BookIDs == NonHexId..(MaxBooks + 1)

\* id.length of 'invalid-id', and the length deleteBook asks for.
InvalidIdLength == 10
ObjectIdLength == 24
IdLength(id) == IF id = MalformedId THEN InvalidIdLength ELSE ObjectIdLength

\* ObjectId.createFromHexString throws on a string that is not 24 hex
\* digits.
CreateFromHexStringThrows(id) == id \in {MalformedId, NonHexId}

\* Line 15: id.length !== 24
InvalidId(id) == IdLength(id) # ObjectIdLength

\* books.deleteOne({ _id: { $eq: objectId } }): the matching document, if
\* any, is removed; deletedCount counts the documents removed.
DeleteOne(collection, id) ==
  [collection |-> [i \in DOMAIN collection \ {id} |-> collection[i]],
   deletedCount |-> IF id \in DOMAIN collection THEN 1 ELSE 0]

\* The document createBook inserts: the fields, and no id field.
CreatedDocument(fields) == [hasId |-> FALSE, fields |-> fields]

\* The replacement document of updateBook: the id and the fields.
Replacement(fields) == [hasId |-> TRUE, fields |-> fields]

\* books.insertOne: the document is stored under a generated identifier.
InsertOne(collection, insertedId, document) ==
  [i \in DOMAIN collection \cup {insertedId} |->
     IF i = insertedId THEN document ELSE collection[i]]

\* books.replaceOne({ _id: { $eq: id } }, document): the matching document
\* is replaced; modifiedCount counts the documents the replacement
\* changed, so it is 0 when nothing matches and when the stored document
\* already equals the replacement.
ReplaceOne(collection, id, document) ==
  IF id \in DOMAIN collection
  THEN [collection |-> [collection EXCEPT ![id] = document],
        matchedCount |-> 1,
        modifiedCount |-> IF collection[id] = document THEN 0 ELSE 1]
  ELSE [collection |-> collection, matchedCount |-> 0, modifiedCount |-> 0]

\* -------------------------------------------------------------- state
VARIABLES
  stock,      \* Shelf Inventory Store: (book, shelf) -> count
  orders,     \* Order Store: orderId -> (book -> quantity)
  nextId,     \* next identifier the Order Store generates
  pc,         \* per call slot: where the call stands
  args,       \* per call slot: the operation and its arguments
  local,      \* per call slot: the locals of the running call
  result,     \* per call slot: outcome of the call (None while running)
  pre,        \* per call slot: stock and orders when the call started
  placed,     \* history: copies of each book placed by successful placements
  served,     \* history: required copies of each book over fulfilled orders
  wins,       \* history: successful fulfilOrder calls per order id
  ledger,     \* history: every order placed, as it was stored at placement
  bookCollection,  \* the books collection: id -> document
  nextBook,   \* how many documents the collection has been asked to insert
  bookCall    \* the last catalog call: its input, result and collection before

\* The catalog of books (src/src/books), apart from the warehouse.
catalog == <<bookCollection, nextBook, bookCall>>

vars == <<stock, orders, nextId, pc, args, local, result, pre, placed, served, wins,
          ledger, catalog>>

NoArgs == [op |-> None, orderId |-> 0, lines |-> <<>>, bookId |-> "X",
           shelf |-> "A", numberOfBooks |-> 0, books |-> <<>>]

NoLocal == [order |-> EmptyMap, processedFulfilment |-> EmptyMap,
            pending |-> {}, newCount |-> 0, orderId |-> 0,
            response |-> EmptyMap]

NoPre == [stock |-> [c \in Books \X Shelves |-> 0], orders |-> EmptyMap]

\* CreateOrUpdateResult: { success: true, id } or { success: false, error }.
Success(id) == [success |-> TRUE, id |-> id, error |-> None]
Failure(error) == [success |-> FALSE, id |-> MalformedId, error |-> error]
\* DeleteResult: { success: true } or { success: false, error }.
Deleted == [success |-> TRUE, id |-> MalformedId, error |-> None]

NoBookCall == [op |-> None, id |-> MalformedId, fields |-> None,
               result |-> Failure(None), before |-> EmptyMap]

Init ==
  /\ stock = [c \in Books \X Shelves |-> 0]
  /\ orders = EmptyMap
  /\ nextId = 1
  /\ pc = [p \in Procs |-> "idle"]
  /\ args = [p \in Procs |-> NoArgs]
  /\ local = [p \in Procs |-> NoLocal]
  /\ result = [p \in Procs |-> None]
  /\ pre = [p \in Procs |-> NoPre]
  /\ placed = [b \in Books |-> 0]
  /\ served = [b \in Books |-> 0]
  /\ wins = [o \in OrderIds |-> 0]
  /\ ledger = EmptyMap
  /\ bookCollection = EmptyMap
  /\ nextBook = 1
  /\ bookCall = NoBookCall

Free(p) == pc[p] = "idle"

\* What the controller of the call in slot p reports to the caller.
Response(p) == ControllerResponse(result[p])

\* A call enters slot p with arguments a.
Enter(p, a, to) ==
  /\ pc' = [pc EXCEPT ![p] = to]
  /\ args' = [args EXCEPT ![p] = a]
  /\ local' = [local EXCEPT ![p] = NoLocal]
  /\ pre' = [pre EXCEPT ![p] = [stock |-> stock, orders |-> orders]]

\* The call in slot p returns or throws r.
Return(p, r) ==
  /\ pc' = [pc EXCEPT ![p] = "done"]
  /\ result' = [result EXCEPT ![p] = r]

\* The controller hands the outcome to the caller (the try/catch around
\* each core call); the slot is free for the next request.
Respond(p) ==
  /\ pc[p] = "done"
  /\ pc' = [pc EXCEPT ![p] = "idle"]
  /\ args' = [args EXCEPT ![p] = NoArgs]
  /\ local' = [local EXCEPT ![p] = NoLocal]
  /\ result' = [result EXCEPT ![p] = None]
  /\ pre' = [pre EXCEPT ![p] = NoPre]
  /\ UNCHANGED <<stock, orders, nextId, placed, served, wins, ledger, catalog>>

\* ------------------------------------------------- placeBooksOnShelf
\* Lines 54-62: the call; a negative number throws before any store call.
PlaceBooksOnShelfCall(p, bookId, numberOfBooks, shelf) ==
  /\ Free(p)
  /\ numberOfBooks > 0 => placed[bookId] + numberOfBooks <= MaxPlaced
  /\ LET a == [NoArgs EXCEPT !.op = "placeBooksOnShelf", !.bookId = bookId,
                             !.shelf = shelf, !.numberOfBooks = numberOfBooks]
     IN IF NegativePlacement(numberOfBooks)
        THEN /\ Enter(p, a, "done")
             /\ result' = [result EXCEPT ![p] = ValidationError]
        ELSE /\ Enter(p, a, "placeRead")
             /\ result' = [result EXCEPT ![p] = None]
  /\ UNCHANGED <<stock, orders, nextId, placed, served, wins, ledger, catalog>>

\* Line 63: current = (await data.getCopiesOnShelf(bookId, shelf)) ?? 0
PlaceBooksOnShelfRead(p) ==
  /\ pc[p] = "placeRead"
  /\ local' = [local EXCEPT ![p].newCount =
                 PlacedCount(GetCopiesOnShelf(stock, args[p].bookId, args[p].shelf),
                             args[p].numberOfBooks)]
  /\ pc' = [pc EXCEPT ![p] = "placeWrite"]
  /\ UNCHANGED <<stock, orders, nextId, args, result, pre, placed, served, wins, ledger, catalog>>

\* Line 64 writing the new count to every shelf of the book.
PlaceBooksOnShelfWrite_AllShelves(p) ==
  /\ pc[p] = "placeWrite"
  /\ IF StoreRejects(local[p].newCount)
     THEN /\ Return(p, ServerError)
          /\ UNCHANGED <<stock, placed>>
     ELSE /\ stock' = [c \in DOMAIN stock |->
                         IF c[1] = args[p].bookId THEN local[p].newCount
                         ELSE stock[c]]
          /\ placed' = [placed EXCEPT ![args[p].bookId] = @ + args[p].numberOfBooks]
          /\ Return(p, Ok)
  /\ UNCHANGED <<orders, nextId, args, local, pre, served, wins, ledger, catalog>>

\* Line 64 as an increment of the count the shelf holds when the write
\* lands.
PlaceBooksOnShelfWrite_Increments(p) ==
  /\ pc[p] = "placeWrite"
  /\ LET newCount == GetCopiesOnShelf(stock, args[p].bookId, args[p].shelf)
                       + args[p].numberOfBooks
     IN IF StoreRejects(newCount)
        THEN /\ Return(p, ServerError)
             /\ UNCHANGED <<stock, placed>>
        ELSE /\ stock' = PlaceBookOnShelfStore(stock, args[p].bookId, args[p].shelf,
                                              newCount)
             /\ placed' = [placed EXCEPT ![args[p].bookId] = @ + args[p].numberOfBooks]
             /\ Return(p, Ok)
  /\ UNCHANGED <<orders, nextId, args, local, pre, served, wins, ledger, catalog>>

\* Line 64: await data.placeBookOnShelf(bookId, shelf, current + numberOfBooks)
PlaceBooksOnShelfWrite(p) ==
  /\ pc[p] = "placeWrite"
  /\ IF StoreRejects(local[p].newCount)
     THEN /\ Return(p, ServerError)
          /\ UNCHANGED <<stock, placed>>
     ELSE /\ stock' = PlaceBookOnShelfStore(stock, args[p].bookId, args[p].shelf,
                                           local[p].newCount)
          /\ placed' = [placed EXCEPT ![args[p].bookId] = @ + args[p].numberOfBooks]
          /\ Return(p, Ok)
  /\ UNCHANGED <<orders, nextId, args, local, pre, served, wins, ledger, catalog>>

\* --------------------------------------------------------- placeOrder
\* Lines 84-90: the call and the tally of the list.
PlaceOrderCall(p, books) ==
  /\ Free(p)
  /\ Enter(p, [NoArgs EXCEPT !.op = "placeOrder", !.books = books], "placeOrderStore")
  /\ UNCHANGED result
  /\ UNCHANGED <<stock, orders, nextId, placed, served, wins, ledger, catalog>>

\* Line 91 behind a check that the shelves hold the copies ordered.
PlaceOrderWrite_ChecksStock(p) ==
  /\ pc[p] = "placeOrderStore"
  /\ LET order == Tally(args[p].books, 1, EmptyMap)
     IN IF \E b \in DOMAIN order :
              \A shelf \in Shelves : GetCopiesOnShelf(stock, b, shelf) < order[b]
        THEN /\ Return(p, InsufficientStock)
             /\ UNCHANGED <<orders, nextId, ledger, local>>
        ELSE /\ orders' = PlaceOrderStore(orders, nextId, order)
             /\ nextId' = nextId + 1
             /\ ledger' = PlaceOrderStore(ledger, nextId, order)
             /\ local' = [local EXCEPT ![p].orderId = nextId]
             /\ Return(p, Ok)
  /\ UNCHANGED <<stock, args, pre, placed, served, wins, catalog>>

\* Line 91: return await data.placeOrder(order)
PlaceOrderWrite(p) ==
  /\ pc[p] = "placeOrderStore"
  /\ orders' = PlaceOrderStore(orders, nextId, Tally(args[p].books, 1, EmptyMap))
  /\ nextId' = nextId + 1
  /\ ledger' = PlaceOrderStore(ledger, nextId, Tally(args[p].books, 1, EmptyMap))
  /\ local' = [local EXCEPT ![p].orderId = nextId]
  /\ Return(p, Ok)
  /\ UNCHANGED <<stock, args, pre, placed, served, wins, catalog>>

\* -------------------------------------------------------- getBookInfo
\* Line 67: the call.
GetBookInfoCall(p, bookId) ==
  /\ Free(p)
  /\ Enter(p, [NoArgs EXCEPT !.op = "getBookInfo", !.bookId = bookId], "getCopies")
  /\ UNCHANGED result
  /\ UNCHANGED <<stock, orders, nextId, placed, served, wins, ledger, catalog>>

\* Lines 71-81: the store answers and the shelves with copies are returned.
GetBookInfoRead(p) ==
  /\ pc[p] = "getCopies"
  /\ local' = [local EXCEPT ![p].response = BookInfo(GetCopies(stock, args[p].bookId))]
  /\ Return(p, Ok)
  /\ UNCHANGED <<stock, orders, nextId, args, pre, placed, served, wins, ledger, catalog>>

\* --------------------------------------------------------- listOrders
\* Line 94: the call.
ListOrdersCall(p) ==
  /\ Free(p)
  /\ Enter(p, [NoArgs EXCEPT !.op = "listOrders"], "listOrders")
  /\ UNCHANGED result
  /\ UNCHANGED <<stock, orders, nextId, placed, served, wins, ledger, catalog>>

\* Line 97: return await data.listOrders()
ListOrdersRead(p) ==
  /\ pc[p] = "listOrders"
  /\ local' = [local EXCEPT ![p].response = ListOrdersStore(orders)]
  /\ Return(p, Ok)
  /\ UNCHANGED <<stock, orders, nextId, args, pre, placed, served, wins, ledger, catalog>>

\* -------------------------------------------------------- fulfilOrder
\* Line 100: the call.
FulfilOrderCall(p, orderId, booksFulfilled) ==
  /\ Free(p)
  /\ Enter(p, [NoArgs EXCEPT !.op = "fulfilOrder", !.orderId = orderId,
                             !.lines = booksFulfilled], "getOrder")
  /\ UNCHANGED result
  /\ UNCHANGED <<stock, orders, nextId, placed, served, wins, ledger, catalog>>

\* The successful return of fulfilOrder, with the history it leaves.
FulfilSucceeds(p, order) ==
  /\ Return(p, Ok)
  /\ served' = [b \in Books |->
                  served[b] + (IF b \in DOMAIN order THEN order[b] ELSE 0)]
  /\ wins' = [wins EXCEPT ![args[p].orderId] = @ + 1]
  /\ UNCHANGED <<ledger, catalog>>

\* Lines 105-125: the order is read, the lines are validated, and the
\* stock reads of all lines are issued.
FulfilOrderGetOrder(p) ==
  /\ pc[p] = "getOrder"
  /\ IF ~HasOrder(orders, args[p].orderId)
     THEN /\ Return(p, OrderNotFound)
          /\ UNCHANGED local
     ELSE LET order == GetOrder(orders, args[p].orderId)
              v == Validate(order, args[p].lines)
          IN IF v # Ok
             THEN /\ Return(p, v)
                  /\ UNCHANGED local
             ELSE /\ local' = [local EXCEPT ![p].order = order,
                                            ![p].pending = 1..Len(args[p].lines)]
                  /\ pc' = [pc EXCEPT ![p] =
                              IF Len(args[p].lines) = 0 THEN "removeOrder" ELSE "reads"]
                  /\ UNCHANGED result
  /\ UNCHANGED <<stock, orders, nextId, args, pre, placed, served, wins, ledger, catalog>>

\* Lines 126-131: the stock read of line i answers; once all lines have
\* answered, removeOrder is issued.
FulfilOrderReadStock(p, i) ==
  /\ pc[p] = "reads"
  /\ i \in local[p].pending
  /\ LET line == args[p].lines[i]
         currentCopiesOnShelf == GetCopiesOnShelf(stock, line.book, line.shelf)
         newCopiesOnShelf == NewCopiesOnShelf(currentCopiesOnShelf, line.numberOfBooks)
         done == DOMAIN local[p].processedFulfilment \cup {i}
     IN IF Insufficient(newCopiesOnShelf)
        THEN /\ Return(p, InsufficientStock)
             /\ UNCHANGED local
        ELSE /\ local' = [local EXCEPT
                  ![p].processedFulfilment =
                     [j \in done |-> IF j = i THEN newCopiesOnShelf
                                     ELSE local[p].processedFulfilment[j]],
                  ![p].pending = @ \ {i}]
             /\ pc' = [pc EXCEPT ![p] =
                         IF local[p].pending = {i} THEN "removeOrder" ELSE "reads"]
             /\ UNCHANGED result
  /\ UNCHANGED <<stock, orders, nextId, args, pre, placed, served, wins, ledger, catalog>>

\* Lines 135-136 without the removal of the order.
FulfilOrderRemoveOrder_KeepsOrder(p) ==
  /\ pc[p] = "removeOrder"
  /\ IF Len(args[p].lines) = 0
     THEN /\ Return(p, Ok)
          /\ served' = [b \in Books |->
                 served[b] + (IF b \in DOMAIN local[p].order
                              THEN local[p].order[b] ELSE 0)]
          /\ wins' = [wins EXCEPT ![args[p].orderId] = @ + 1]
          /\ UNCHANGED <<local, ledger, catalog>>
     ELSE /\ pc' = [pc EXCEPT ![p] = "writes"]
          /\ local' = [local EXCEPT ![p].pending = 1..Len(args[p].lines)]
          /\ UNCHANGED <<result, served, wins, ledger, catalog>>
  /\ UNCHANGED <<stock, orders, nextId, args, pre, placed>>

\* Lines 135-136: the order is removed and the stock writes of all lines
\* are issued.
FulfilOrderRemoveOrder(p) ==
  /\ pc[p] = "removeOrder"
  /\ orders' = RemoveOrder(orders, args[p].orderId)
  /\ IF Len(args[p].lines) = 0
     THEN /\ FulfilSucceeds(p, local[p].order)
          /\ UNCHANGED local
     ELSE /\ pc' = [pc EXCEPT ![p] = "writes"]
          /\ local' = [local EXCEPT ![p].pending = 1..Len(args[p].lines)]
          /\ UNCHANGED <<result, served, wins, ledger, catalog>>
  /\ UNCHANGED <<stock, nextId, args, pre, placed>>

\* Lines 137-140 with a write that takes the line's quantity off the
\* count the shelf holds when the write lands.
FulfilOrderWriteStock_Decrements(p, i) ==
  /\ pc[p] = "writes"
  /\ i \in local[p].pending
  /\ LET line == args[p].lines[i]
         numberOfBooks == GetCopiesOnShelf(stock, line.book, line.shelf)
                            - line.numberOfBooks
     IN IF StoreRejects(numberOfBooks)
        THEN /\ Return(p, ServerError)
             /\ UNCHANGED <<stock, local, served, wins, ledger, catalog>>
        ELSE /\ stock' = PlaceBookOnShelfStore(stock, line.book, line.shelf, numberOfBooks)
             /\ local' = [local EXCEPT ![p].pending = @ \ {i}]
             /\ IF local[p].pending = {i}
                THEN FulfilSucceeds(p, local[p].order)
                ELSE UNCHANGED <<pc, result, served, wins, ledger, catalog>>
  /\ UNCHANGED <<orders, nextId, args, pre, placed>>

\* Lines 137-140: the stock write of line i is applied; the call returns
\* once all writes are.
FulfilOrderWriteStock(p, i) ==
  /\ pc[p] = "writes"
  /\ i \in local[p].pending
  /\ LET line == args[p].lines[i]
         numberOfBooks == local[p].processedFulfilment[i]
     IN IF StoreRejects(numberOfBooks)
        THEN /\ Return(p, ServerError)
             /\ UNCHANGED <<stock, local, served, wins, ledger, catalog>>
        ELSE /\ stock' = PlaceBookOnShelfStore(stock, line.book, line.shelf, numberOfBooks)
             /\ local' = [local EXCEPT ![p].pending = @ \ {i}]
             /\ IF local[p].pending = {i}
                THEN FulfilSucceeds(p, local[p].order)
                ELSE UNCHANGED <<pc, result, served, wins, ledger, catalog>>
  /\ UNCHANGED <<orders, nextId, args, pre, placed>>

\* ------------------------------------------------------- books catalog
\* createBook (delete.ts lines 118-134).
CreateBook(fields) ==
  /\ nextBook <= MaxBooks
  /\ bookCollection' = InsertOne(bookCollection, nextBook, CreatedDocument(fields))
  /\ nextBook' = nextBook + 1
  /\ bookCall' = [op |-> "createBook", id |-> nextBook, fields |-> fields,
                  result |-> Success(nextBook), before |-> bookCollection]
  /\ UNCHANGED <<stock, orders, nextId, pc, args, local, result, pre, placed,
                 served, wins, ledger>>

\* updateBook (delete.ts lines 136-160).
UpdateBook(id, fields) ==
  /\ IF CreateFromHexStringThrows(id)
     THEN /\ bookCall' = [op |-> "updateBook", id |-> id, fields |-> fields,
                          result |-> Failure("server_error"),
                          before |-> bookCollection]
          /\ UNCHANGED bookCollection
     ELSE LET r == ReplaceOne(bookCollection, id, Replacement(fields))
          IN /\ bookCollection' = r.collection
             /\ bookCall' = [op |-> "updateBook", id |-> id, fields |-> fields,
                             result |-> IF r.modifiedCount = 1 THEN Success(id)
                                        ELSE Failure("not_found"),
                             before |-> bookCollection]
  /\ UNCHANGED <<stock, orders, nextId, pc, args, local, result, pre, placed,
                 served, wins, ledger, nextBook>>

\* deleteBook (delete.ts lines 10-30).
DeleteBook(id) ==
  /\ LET call(r) == [op |-> "deleteBook", id |-> id, fields |-> None,
                      result |-> r, before |-> bookCollection]
     IN IF InvalidId(id)
        THEN /\ bookCall' = call(Failure("invalid_id"))
             /\ UNCHANGED bookCollection
        ELSE IF CreateFromHexStringThrows(id)
        THEN /\ bookCall' = call(Failure("server_error"))
             /\ UNCHANGED bookCollection
        ELSE LET r == DeleteOne(bookCollection, id)
             IN /\ bookCollection' = r.collection
                /\ bookCall' = call(IF r.deletedCount = 1 THEN Deleted
                                    ELSE Failure("not_found"))
  /\ UNCHANGED <<stock, orders, nextId, pc, args, local, result, pre, placed,
                 served, wins, ledger, nextBook>>

\* ------------------------------------------------------ store failures
\* A store operation may fail with a generic store error, which the core
\* lets through (spec section 6).  The pending read, removal or single
\* write of the call in slot p fails.
StoreFails(p) ==
  /\ pc[p] \in {"placeRead", "placeWrite", "placeOrderStore", "getOrder",
                "reads", "removeOrder", "getCopies", "listOrders"}
  /\ Return(p, ServerError)
  /\ UNCHANGED <<stock, orders, nextId, args, local, pre, placed, served, wins, ledger, catalog>>

\* One of the stock writes issued together at lines 136-140 fails: the
\* call throws, the writes still in flight are not cancelled.
StockWriteFails(p, i) ==
  /\ pc[p] = "writes"
  /\ i \in local[p].pending
  /\ result' = [result EXCEPT ![p] = ServerError]
  /\ local' = [local EXCEPT ![p].pending = @ \ {i}]
  /\ pc' = [pc EXCEPT ![p] = IF local[p].pending = {i} THEN "done" ELSE "drain"]
  /\ UNCHANGED <<stock, orders, nextId, args, pre, placed, served, wins, ledger, catalog>>

\* A write still in flight after the call has thrown lands, or is lost.
StockWriteDrains(p, i, lands) ==
  /\ pc[p] = "drain"
  /\ i \in local[p].pending
  /\ LET line == args[p].lines[i]
     IN stock' = IF lands
                 THEN PlaceBookOnShelfStore(stock, line.book, line.shelf,
                                            local[p].processedFulfilment[i])
                 ELSE stock
  /\ local' = [local EXCEPT ![p].pending = @ \ {i}]
  /\ pc' = [pc EXCEPT ![p] = IF local[p].pending = {i} THEN "done" ELSE "drain"]
  /\ UNCHANGED <<orders, nextId, args, result, pre, placed, served, wins, ledger, catalog>>

\* ------------------------------------------------------ specifications
\* The steps of the calls in the slots P, with books Bk, shelves Sh,
\* quantities Q, at most n fulfilment lines per call, and at most cap
\* orders placed, each for a list of at most m books.
Calls(P, Bk, Sh, Q, n, cap, m) ==
  \/ \E p \in P, b \in Bk, k \in Q, s \in Sh : PlaceBooksOnShelfCall(p, b, k, s)
  \/ \E p \in P : PlaceBooksOnShelfRead(p)
  \/ \E p \in P : PlaceBooksOnShelfWrite(p)
  \/ \E p \in P, books \in SeqsUpTo(Bk, m) :
       nextId <= cap /\ PlaceOrderCall(p, books)
  \/ \E p \in P : nextId <= cap /\ PlaceOrderWrite(p)
  \/ \E p \in P, o \in 1..(cap + 1),
        lines \in SeqsUpTo(FulfilBookItem(Bk, Sh, Q), n) :
       FulfilOrderCall(p, o, lines)
  \/ \E p \in P : FulfilOrderGetOrder(p)
  \/ \E p \in P, i \in 1..n : FulfilOrderReadStock(p, i)
  \/ \E p \in P : FulfilOrderRemoveOrder(p)
  \/ \E p \in P, i \in 1..n : FulfilOrderWriteStock(p, i)
  \/ \E p \in P, b \in Bk : GetBookInfoCall(p, b)
  \/ \E p \in P : GetBookInfoRead(p)
  \/ \E p \in P : ListOrdersCall(p)
  \/ \E p \in P : ListOrdersRead(p)
  \/ \E p \in P : Respond(p)

Failures(P, n) ==
  \/ \E p \in P : StoreFails(p)
  \/ \E p \in P, i \in 1..n : StockWriteFails(p, i)
  \/ \E p \in P, i \in 1..n, lands \in BOOLEAN : StockWriteDrains(p, i, lands)

\* Calls run one at a time over a store that answers.
Next == Calls({1}, Books, Shelves, Qtys, MaxLines, MaxOrders, MaxOrderLen)

Spec == Init /\ [][Next]_vars

\* Calls run one at a time over a store whose operations may fail.
NextFault ==
  \/ Calls({1}, ConcBooks, Shelves, Qtys, MaxLines, MaxOrders, MaxOrderLen)
  \/ Failures({1}, MaxLines)

SpecFault == Init /\ [][NextFault]_vars

\* Two requests in flight, their store reads and writes interleaved.
NextConc == Calls(Procs, ConcBooks, ConcShelves, (0 - NegQty)..ConcQty, ConcLines, ConcOrders, ConcOrderLen)

SpecConc == Init /\ [][NextConc]_vars

\* Placements only, one call after the other has returned.
NextShelf ==
  \/ \E b \in Books, k \in Qtys, s \in Shelves : PlaceBooksOnShelfCall(1, b, k, s)
  \/ PlaceBooksOnShelfRead(1)
  \/ PlaceBooksOnShelfWrite(1)
  \/ Respond(1)

SpecShelf == Init /\ [][NextShelf]_vars

\* Shelves are stocked and orders placed by one caller; fulfilOrder
\* requests for these orders arrive from two callers and are interleaved.
NextPair ==
  \/ \E k \in 1..ConcQty, b \in ConcBooks, s \in ConcShelves :
       PlaceBooksOnShelfCall(1, b, k, s)
  \/ PlaceBooksOnShelfRead(1)
  \/ PlaceBooksOnShelfWrite(1)
  \/ \E books \in SeqsUpTo(ConcBooks, ConcOrderLen) :
       nextId <= PairOrders /\ PlaceOrderCall(1, books)
  \/ nextId <= PairOrders /\ PlaceOrderWrite(1)
  \/ \E p \in Procs, o \in 1..PairOrders,
        lines \in SeqsUpTo(FulfilBookItem(ConcBooks, ConcShelves, 1..ConcQty), ConcLines) :
       FulfilOrderCall(p, o, lines)
  \/ \E p \in Procs : FulfilOrderGetOrder(p)
  \/ \E p \in Procs, i \in 1..ConcLines : FulfilOrderReadStock(p, i)
  \/ \E p \in Procs : FulfilOrderRemoveOrder(p)
  \/ \E p \in Procs, i \in 1..ConcLines : FulfilOrderWriteStock(p, i)
  \/ \E p \in Procs : Respond(p)

SpecPair == Init /\ [][NextPair]_vars

\* Catalog calls, one after the other has returned.
NextBooks ==
  \/ \E fields \in BookValues : CreateBook(fields)
  \/ \E id \in BookIDs, fields \in BookValues : UpdateBook(id, fields)
  \/ \E id \in BookIDs : DeleteBook(id)

SpecBooks == Init /\ [][NextBooks]_vars

\* ------------------------------------------------------------- claims
\* What a finished call in slot p was asked, stated over its arguments
\* and over the stores as they were when it started.
Fulfil(p) == args[p].op = "fulfilOrder"
Finished(p) == pc[p] = "done"
Lines(p) == args[p].lines
Cells == Books \X Shelves
CellOf(line) == <<line.book, line.shelf>>

Pending(p) == args[p].orderId \in DOMAIN pre[p].orders
Required(p) == pre[p].orders[args[p].orderId]

RECURSIVE SumOver(_, _)
SumOver(S, f) ==
  IF S = {} THEN 0
  ELSE LET x == CHOOSE y \in S : TRUE IN f[x] + SumOver(S \ {x}, f)

QtyOf(lines) == [i \in DOMAIN lines |-> lines[i].numberOfBooks]
LineSum(lines, book) ==
  SumOver({i \in DOMAIN lines : lines[i].book = book}, QtyOf(lines))
CellSum(lines, cell) ==
  SumOver({i \in DOMAIN lines : CellOf(lines[i]) = cell}, QtyOf(lines))

NoOutsideBook(p) == \A i \in DOMAIN Lines(p) : Lines(p)[i].book \in DOMAIN Required(p)
SumsExact(p) == \A b \in DOMAIN Required(p) : LineSum(Lines(p), b) = Required(p)[b]
Stocked(p) ==
  \A i \in DOMAIN Lines(p) :
     Lines(p)[i].numberOfBooks <= pre[p].stock[CellOf(Lines(p)[i])]
Untouched(p) == stock = pre[p].stock /\ orders = pre[p].orders
Gone(p) == args[p].orderId \notin DOMAIN orders

TotalStock(book) == SumOver({book} \X Shelves, stock)

\* C1 (as stated): a fulfilOrder call on a pending order succeeds if and
\* only if the lines' quantities sum to the required quantity for every
\* book of the order and no line names a book outside the order; after a
\* success the order is absent.
C1_SuccessIffExactMatch ==
  \A p \in Procs :
     (Finished(p) /\ Fulfil(p) /\ Pending(p)) =>
        /\ (result[p] = Ok) <=> (SumsExact(p) /\ NoOutsideBook(p))
        /\ result[p] = Ok => Gone(p)

\* C1 (amended): a fulfilOrder call on a pending order, run on its own
\* over a store that answers, succeeds if and only if the lines' quantities
\* sum to the required quantity for every book of the order, no line names
\* a book outside the order, and no line asks for more copies than the
\* stock of its (book, shelf); after a success the order is absent.
C1_SuccessIffExactAndStocked ==
  \A p \in Procs :
     (Finished(p) /\ Fulfil(p) /\ Pending(p)) =>
        /\ (result[p] = Ok) <=> (SumsExact(p) /\ NoOutsideBook(p) /\ Stocked(p))
        /\ result[p] = Ok => Gone(p)

\* A fulfilment of a two-book order from two lines has succeeded.
C1_Witness ==
  /\ Finished(1) /\ Fulfil(1) /\ Pending(1) /\ result[1] = Ok
  /\ Cardinality(DOMAIN Required(1)) = 2
  /\ Len(Lines(1)) = 2

\* Every (book, shelf) count is >= 0 and no call holds a negative count
\* to write.
C2_Counts ==
  /\ \A c \in Cells : stock[c] >= 0
  /\ \A p \in Procs :
       /\ pc[p] = "placeWrite" => local[p].newCount >= 0
       /\ pc[p] \in {"removeOrder", "writes"} =>
            \A i \in DOMAIN local[p].processedFulfilment :
               local[p].processedFulfilment[i] >= 0

\* A call rejected for a negative count is rejected before its first
\* write, and the rejection changes no store.
C2_Rejection ==
  \A p \in Procs :
     (result[p] = None /\ result'[p] \in {InsufficientStock, ValidationError}) =>
        /\ pc[p] \in {"idle", "reads"}
        /\ stock' = stock
        /\ orders' = orders

\* C2: in every reachable state of interleaved placeBooksOnShelf and
\* fulfilOrder calls every (book, shelf) count is >= 0 and no call holds a
\* negative count to write; a call rejected for a negative count is
\* rejected before its first write and its rejection changes no store.
C2_NonNegative == []C2_Counts /\ [][C2_Rejection]_vars

\* A fulfilment has been rejected for lack of stock while a placement on
\* the same shelf is between its read and its write.
C2_Witness ==
  \E p, q \in Procs :
     /\ p # q
     /\ Fulfil(p) /\ result[p] = InsufficientStock
     /\ pc[q] = "placeWrite"
     /\ <<args[q].bookId, args[q].shelf>> = CellOf(Lines(p)[1])

\* C3: a fulfilOrder call that has failed, for whatever reason, leaves the
\* order store and every stock count as they were when it started.
C3_FailureLeavesStateUnchanged ==
  \A p \in Procs :
     (Fulfil(p) /\ pc[p] \in {"done", "drain"} /\ result[p] # Ok) => Untouched(p)

\* C4: whenever no call is running, the total stock of every book equals
\* the copies placed minus the copies required by the fulfilled orders.
C4_Conservation ==
  (\A p \in Procs : pc[p] \in {"idle", "done"}) =>
     \A b \in Books : TotalStock(b) = placed[b] - served[b]

\* C5: after a successful fulfilOrder call every (book, shelf) count is the
\* count before the call minus the quantities of all lines that name it.
C5_DecrementPerLine ==
  \A p \in Procs :
     (Finished(p) /\ Fulfil(p) /\ result[p] = Ok) =>
        \A c \in Cells : stock[c] = pre[p].stock[c] - CellSum(Lines(p), c)

\* C6: a failed fulfilOrder call reports the earliest violated
\* precondition in the order existence, membership, quantity, stock.
C6_EarliestFailure ==
  \A p \in Procs :
     (Finished(p) /\ Fulfil(p)) =>
        /\ ~Pending(p) => result[p] = OrderNotFound
        /\ (Pending(p) /\ ~NoOutsideBook(p)) => result[p] = UnknownBookInOrder
        /\ (Pending(p) /\ NoOutsideBook(p) /\ ~SumsExact(p)) =>
              result[p] = QuantityMismatch
        /\ (Pending(p) /\ NoOutsideBook(p) /\ SumsExact(p) /\ ~Stocked(p)) =>
              result[p] = InsufficientStock

\* A call that names a book outside the order, brings a wrong quantity of
\* a book of the order and asks an empty shelf has failed on membership.
C6_Witness ==
  /\ Finished(1) /\ Fulfil(1) /\ Pending(1)
  /\ ~NoOutsideBook(1) /\ ~SumsExact(1) /\ ~Stocked(1)
  /\ \E i \in DOMAIN Lines(1) : Lines(1)[i].book \in DOMAIN Required(1)
  /\ result[1] = UnknownBookInOrder

\* C7: fulfilOrder on an identifier absent from the order store fails with
\* OrderNotFound and changes nothing, and no order identifier is fulfilled
\* successfully more than once.
C7_ConsumedOnce ==
  /\ \A p \in Procs :
       (Finished(p) /\ Fulfil(p) /\ ~Pending(p)) =>
          (result[p] = OrderNotFound /\ Untouched(p))
  /\ \A o \in OrderIds : wins[o] <= 1

\* A second fulfilment of an order already fulfilled has failed.
C7_Witness ==
  /\ Finished(1) /\ Fulfil(1)
  /\ wins[args[1].orderId] = 1
  /\ result[1] = OrderNotFound

\* C8: fulfilOrder on an existing order, with lines that all name books of
\* the order and whose sum for some book differs from the required
\* quantity, fails with QuantityMismatch and changes nothing.
C8_QuantityMismatch ==
  \A p \in Procs :
     (Finished(p) /\ Fulfil(p) /\ Pending(p) /\ NoOutsideBook(p) /\ ~SumsExact(p)) =>
        (result[p] = QuantityMismatch /\ Untouched(p))

\* A fulfilment with an exact line for one book of the order and no line
\* at all for another has failed on quantity.
C8_Witness ==
  /\ Finished(1) /\ Fulfil(1) /\ Pending(1) /\ NoOutsideBook(1)
  /\ \E b, c \in DOMAIN Required(1) :
       /\ LineSum(Lines(1), b) = Required(1)[b]
       /\ \A i \in DOMAIN Lines(1) : Lines(1)[i].book # c
  /\ result[1] = QuantityMismatch

\* C9: fulfilOrder on an existing order with matching quantities, one of
\* whose lines asks for more copies than the stock of its (book, shelf),
\* fails with InsufficientStock and changes nothing.
C9_InsufficientStock ==
  \A p \in Procs :
     (Finished(p) /\ Fulfil(p) /\ Pending(p) /\ NoOutsideBook(p) /\ SumsExact(p)
        /\ ~Stocked(p)) =>
        (result[p] = InsufficientStock /\ Untouched(p))

\* A two-line fulfilment whose first line the stock covers and whose
\* second line it does not has failed for lack of stock.
C9_Witness ==
  /\ Finished(1) /\ Fulfil(1) /\ Pending(1) /\ Len(Lines(1)) = 2
  /\ Lines(1)[1].numberOfBooks > 0
  /\ Lines(1)[1].numberOfBooks <= pre[1].stock[CellOf(Lines(1)[1])]
  /\ Lines(1)[2].numberOfBooks > pre[1].stock[CellOf(Lines(1)[2])]
  /\ result[1] = InsufficientStock

\* The stock write of line i of the call in slot p has been applied.
Written(p, i) ==
  \/ pc[p] \in {"writes", "drain"} /\ i \notin local[p].pending
  \/ pc[p] = "done" /\ result[p] = Ok

\* C10: in no state of a fulfilOrder call is the order gone while the
\* stock write of some line is still to come, nor a line's stock written
\* while the order is still present.
C10_CommitIsOneUnit ==
  \A p \in Procs :
     (Fulfil(p) /\ Pending(p)) =>
        \A i \in DOMAIN Lines(p) : Gone(p) <=> Written(p, i)

\* The counts the successful call in slot p wrote to the (book, shelf) c.
Wrote(p, c) ==
  {local[p].processedFulfilment[i] :
     i \in {j \in DOMAIN Lines(p) : CellOf(Lines(p)[j]) = c}}

\* Two fulfilOrder calls for the same order, in flight together, have
\* both succeeded.
BothSucceeded(p, q) ==
  /\ p # q
  /\ Finished(p) /\ Fulfil(p) /\ result[p] = Ok
  /\ Finished(q) /\ Fulfil(q) /\ result[q] = Ok
  /\ args[p].orderId = args[q].orderId

\* C11: two fulfilOrder calls for the same order that run concurrently
\* can both succeed; when they have, both had read the same order, the
\* order is gone and counted as fulfilled twice, and every (book, shelf)
\* of their lines holds the absolute count one of the two calls wrote
\* (the other's decrement is overwritten or stacked on it).
C11_FulfilledTwice ==
  \A p, q \in Procs :
     BothSucceeded(p, q) =>
        /\ local[p].order = local[q].order
        /\ Gone(p)
        /\ wins[args[p].orderId] = 2
        /\ \A b \in DOMAIN local[p].order : served[b] >= 2 * local[p].order[b]
        /\ \A c \in Cells :
              (Wrote(p, c) \cup Wrote(q, c)) # {} =>
                 stock[c] \in (Wrote(p, c) \cup Wrote(q, c))

\* Both calls have succeeded on an order of one copy after reading the
\* same count: the shelf lost one copy for two fulfilments.
C11_Witness ==
  /\ BothSucceeded(1, 2)
  /\ local[1].order # EmptyMap
  /\ Len(Lines(1)) = 1 /\ Len(Lines(2)) = 1
  /\ CellOf(Lines(1)[1]) = CellOf(Lines(2)[1])
  /\ local[1].processedFulfilment[1] = local[2].processedFulfilment[1]
  /\ stock[CellOf(Lines(1)[1])] = local[1].processedFulfilment[1]

Placement(p) == args[p].op = "placeBooksOnShelf"

\* C12: placeBooksOnShelf with a negative number fails with the
\* validation error before any store read or write is issued and leaves
\* every stock count unchanged; with a number >= 0 it never fails
\* validation.
C12_NegativePlacementRejected ==
  \A p \in Procs :
     Placement(p) =>
        /\ pc[p] \in {"placeRead", "placeWrite"} => args[p].numberOfBooks >= 0
        /\ (Finished(p) /\ args[p].numberOfBooks < 0) =>
              (result[p] = ValidationError /\ Untouched(p))
        /\ (Finished(p) /\ args[p].numberOfBooks >= 0) =>
              result[p] # ValidationError

\* A placement of a negative number on a shelf that holds copies has
\* been rejected.
C12_Witness ==
  /\ Finished(1) /\ Placement(1)
  /\ args[1].numberOfBooks < 0
  /\ result[1] = ValidationError
  /\ stock[<<args[1].bookId, args[1].shelf>>] > 0

\* C13: placement is additive.  A successful placeBooksOnShelf of n
\* copies leaves its (book, shelf) at the count before the call plus n and
\* every other count as it was, so that over placements made one after
\* the other has returned the stock of a book is the sum of all numbers
\* placed (previous + n + m after two calls, not m).
C13_PlacementAdds ==
  /\ \A p \in Procs :
       (Finished(p) /\ Placement(p) /\ result[p] = Ok) =>
          \A c \in Cells :
             stock[c] = pre[p].stock[c]
                          + (IF c = <<args[p].bookId, args[p].shelf>>
                             THEN args[p].numberOfBooks ELSE 0)
  /\ (\A p \in Procs : pc[p] \in {"idle", "done"}) =>
       \A b \in Books : TotalStock(b) = placed[b]

\* A second placement of one copy on a shelf that held one copy of the
\* book from an earlier placement has returned: the shelf holds two.
C13_Witness ==
  /\ Finished(1) /\ Placement(1) /\ result[1] = Ok
  /\ args[1].numberOfBooks = 1
  /\ pre[1].stock[<<args[1].bookId, args[1].shelf>>] = 1
  /\ stock[<<args[1].bookId, args[1].shelf>>] = 2
  /\ placed[args[1].bookId] = 2

PlacesOrder(p) == args[p].op = "placeOrder"
Occurrences(books, b) == Cardinality({i \in DOMAIN books : books[i] = b})

\* C14: placeOrder stores, under the identifier it returns, the tally of
\* its list: for every book of the list the stored quantity is the number
\* of its occurrences, books not in the list are not in the order, every
\* stored quantity is >= 1, and the quantities sum to the list's length.
C14_OrderIsTally ==
  \A p \in Procs :
     (Finished(p) /\ PlacesOrder(p) /\ result[p] = Ok) =>
        LET id == local[p].orderId
            books == args[p].books
        IN /\ id \notin DOMAIN pre[p].orders
           /\ id \in DOMAIN orders
           /\ DOMAIN orders[id] = {books[i] : i \in DOMAIN books}
           /\ \A b \in DOMAIN orders[id] :
                 /\ orders[id][b] = Occurrences(books, b)
                 /\ orders[id][b] >= 1
           /\ SumOver(DOMAIN orders[id], orders[id]) = Len(books)

\* An order for two copies of one book has been placed.
C14_Witness ==
  /\ Finished(1) /\ PlacesOrder(1) /\ result[1] = Ok
  /\ Len(args[1].books) = 2
  /\ args[1].books[1] = args[1].books[2]
  /\ orders[local[1].orderId][args[1].books[1]] = 2

\* C15: placeOrder neither checks nor reserves stock: it succeeds for any
\* list of books whatever the shelves hold, and from its call to its
\* return every stock count stays as it was.
C15_OrderIgnoresStock ==
  \A p \in Procs :
     PlacesOrder(p) =>
        /\ stock = pre[p].stock
        /\ Finished(p) => result[p] = Ok

\* An order for two copies of a book of which the shelves hold one has
\* been placed.
C15_Witness ==
  /\ Finished(1) /\ PlacesOrder(1) /\ result[1] = Ok
  /\ \E b \in DOMAIN orders[local[1].orderId] :
       /\ orders[local[1].orderId][b] = 2
       /\ TotalStock(b) = 1

AsksBookInfo(p) == args[p].op = "getBookInfo"

\* C16: getBookInfo(book) returns exactly the shelves whose stock of the
\* book is > 0, each with its current count; a shelf with zero copies is
\* never in the result; the call changes no stock count and no order.
C16_BookInfoIsPositiveShelves ==
  \A p \in Procs :
     AsksBookInfo(p) =>
        /\ Untouched(p)
        /\ Finished(p) =>
              /\ result[p] = Ok
              /\ DOMAIN local[p].response =
                    {shelf \in Shelves : stock[<<args[p].bookId, shelf>>] > 0}
              /\ \A shelf \in DOMAIN local[p].response :
                    local[p].response[shelf] = stock[<<args[p].bookId, shelf>>]

\* The shelves of a book have been asked for while one shelf holds copies
\* of it and another, after a fulfilment, holds none.
C16_Witness ==
  /\ Finished(1) /\ AsksBookInfo(1)
  /\ served[args[1].bookId] > 0
  /\ \E shelf, other \in Shelves :
       /\ stock[<<args[1].bookId, shelf>>] > 0
       /\ stock[<<args[1].bookId, other>>] = 0
       /\ DOMAIN local[1].response = {shelf}

ListsOrders(p) == args[p].op = "listOrders"

\* The orders placed and not yet successfully fulfilled.
Outstanding == {o \in DOMAIN ledger : wins[o] = 0}

\* C17: with calls run one at a time, listOrders returns exactly the
\* orders placed and not yet successfully fulfilled, each with the books
\* and quantities stored at its placement, and changes neither orders nor
\* stock.
C17_ListIsOutstandingOrders ==
  \A p \in Procs :
     ListsOrders(p) =>
        /\ Untouched(p)
        /\ (Finished(p) /\ result[p] = Ok) =>
              /\ DOMAIN local[p].response = Outstanding
              /\ \A o \in DOMAIN local[p].response :
                    local[p].response[o] = ledger[o]

\* The failures of fulfilOrder that name a violated precondition.
PreconditionFailures ==
  {OrderNotFound, UnknownBookInOrder, QuantityMismatch, InsufficientStock}

\* C18: at the caller-facing fulfil operation a fulfilment that fails a
\* precondition is reported to the caller as its own failure kind, and
\* the generic server error is reported only when a store operation has
\* failed.
C18_FailureKindReported ==
  \A p \in Procs :
     (Finished(p) /\ Fulfil(p)) =>
        /\ result[p] \in PreconditionFailures => Response(p) = result[p]
        /\ Response(p) = ServerErrorResponse => result[p] = ServerError

\* C19: an order is immutable once created: every order placed is still
\* stored with the quantities of its placement, unless a fulfilOrder call
\* for its own identifier that has succeeded, or is still applying its
\* stock writes, has removed it.
C19_OrderImmutable ==
  \A o \in DOMAIN ledger :
     \/ o \in DOMAIN orders /\ orders[o] = ledger[o]
     \/ /\ o \notin DOMAIN orders
        /\ \/ wins[o] >= 1
           \/ \E p \in Procs :
                 Fulfil(p) /\ args[p].orderId = o /\ pc[p] = "writes"

Updated == bookCall.op = "updateBook"

\* C20: updateBook on a book that is in the catalog returns success with
\* that book's id, whatever the new field values and wherever in a
\* sequence of create and update calls it comes; on a well-formed id
\* with no stored book it returns not_found and creates no book.
C20_UpdateFindsStoredBook ==
  Updated =>
     /\ bookCall.id \in DOMAIN bookCall.before =>
           bookCall.result = Success(bookCall.id)
     /\ (bookCall.id \notin DOMAIN bookCall.before
           /\ ~CreateFromHexStringThrows(bookCall.id)) =>
           /\ bookCall.result = Failure("not_found")
           /\ bookCollection = bookCall.before

DeletesBook == bookCall.op = "deleteBook"

\* C21: deleteBook returns invalid_id for every id that is not a valid
\* book id and not_found for a valid id with no stored book (so also for
\* a second deletion of the same id), in both cases leaving the catalog
\* unchanged; for the id of a stored book it returns success, and that
\* book, and no other, is then absent from the catalog.
C21_DeleteBook ==
  DeletesBook =>
     /\ CreateFromHexStringThrows(bookCall.id) =>
           /\ bookCall.result = Failure("invalid_id")
           /\ bookCollection = bookCall.before
     /\ (~CreateFromHexStringThrows(bookCall.id)
           /\ bookCall.id \notin DOMAIN bookCall.before) =>
           /\ bookCall.result = Failure("not_found")
           /\ bookCollection = bookCall.before
     /\ bookCall.id \in DOMAIN bookCall.before =>
           /\ bookCall.result = Deleted
           /\ bookCollection = DeleteOne(bookCall.before, bookCall.id).collection
           /\ bookCall.id \notin DOMAIN bookCollection

\* C22: placeOrder with an empty list succeeds and stores an order with
\* no book; fulfilOrder on such an order with zero lines succeeds, removes
\* the order and changes no stock, and with any non-empty list of lines
\* fails with UnknownBookInOrder, changing nothing.
C22_EmptyOrder ==
  \A p \in Procs :
     /\ (Finished(p) /\ PlacesOrder(p) /\ args[p].books = <<>>) =>
           /\ result[p] = Ok
           /\ local[p].orderId \in DOMAIN orders
           /\ DOMAIN orders[local[p].orderId] = {}
     /\ (Finished(p) /\ Fulfil(p) /\ Pending(p) /\ DOMAIN Required(p) = {}) =>
           /\ Lines(p) = <<>> =>
                 (result[p] = Ok /\ Gone(p) /\ stock = pre[p].stock)
           /\ Lines(p) # <<>> =>
                 (result[p] = UnknownBookInOrder /\ Untouched(p))

\* An order for no book has been fulfilled with zero lines while a shelf
\* holds copies.
C22_Witness ==
  /\ Finished(1) /\ Fulfil(1) /\ Pending(1)
  /\ DOMAIN Required(1) = {}
  /\ Lines(1) = <<>>
  /\ result[1] = Ok /\ Gone(1)
  /\ \E c \in Cells : stock[c] > 0

\* Two placeBooksOnShelf calls for the same (book, shelf), in flight
\* together, have both returned.
BothPlaced(p, q) ==
  /\ p # q
  /\ Finished(p) /\ Placement(p) /\ result[p] = Ok
  /\ Finished(q) /\ Placement(q) /\ result[q] = Ok
  /\ args[p].bookId = args[q].bookId /\ args[p].shelf = args[q].shelf

\* The count the placement in slot p read at line 63.
ReadCount(p) == local[p].newCount - args[p].numberOfBooks

\* C23: the read, compute, write of placeBooksOnShelf is a race seam.
\* When two calls for the same (book, shelf) with numbers n and m have
\* run concurrently and both returned, the shelf holds the absolute count
\* one of them wrote; if both had read the same count, that is previous +
\* n or previous + m and not previous + n + m.
C23_PlacementRace ==
  \A p, q \in Procs :
     BothPlaced(p, q) =>
        LET c == <<args[p].bookId, args[p].shelf>>
        IN /\ stock[c] \in {local[p].newCount, local[q].newCount}
           /\ ReadCount(p) = ReadCount(q) =>
                 stock[c] \in {ReadCount(p) + args[p].numberOfBooks,
                               ReadCount(p) + args[q].numberOfBooks}

\* Two placements of copies on the same shelf have both returned after
\* reading the same count: the shelf holds less than was placed.
C23_Witness ==
  /\ BothPlaced(1, 2)
  /\ args[1].numberOfBooks > 0 /\ args[2].numberOfBooks > 0
  /\ ReadCount(1) = ReadCount(2)
  /\ stock[<<args[1].bookId, args[1].shelf>>]
        < ReadCount(1) + args[1].numberOfBooks + args[2].numberOfBooks

\* C24: a successful fulfilOrder call never increases the stock of any
\* (book, shelf): every count after the call is <= the count before it,
\* for every list of lines the call accepts.
C24_FulfilNeverAddsStock ==
  \A p \in Procs :
     (Finished(p) /\ Fulfil(p) /\ result[p] = Ok) =>
        \A c \in Cells : stock[c] <= pre[p].stock[c]

\* The (book, shelf) pairs the lines of the call in slot p name.
Named(p) == {CellOf(Lines(p)[i]) : i \in DOMAIN Lines(p)}

\* C25: stock writes are confined to the named entries.  From its call to
\* its return placeBooksOnShelf(book, shelf, n) leaves the count of every
\* other (book, shelf) as it was, and so does fulfilOrder for every
\* (book, shelf) that none of its lines names.
C25_WritesConfined ==
  \A p \in Procs :
     /\ Placement(p) =>
           \A c \in Cells \ {<<args[p].bookId, args[p].shelf>>} :
              stock[c] = pre[p].stock[c]
     /\ Fulfil(p) =>
           \A c \in Cells \ Named(p) : stock[c] = pre[p].stock[c]

\* A fulfilment has taken copies of a book from one shelf while another
\* shelf holds copies of the same book.
C25_Witness ==
  /\ Finished(1) /\ Fulfil(1) /\ result[1] = Ok
  /\ \E c \in Named(1), d \in Cells \ Named(1) :
       /\ c[1] = d[1]
       /\ stock[c] < pre[1].stock[c]
       /\ stock[d] > 0

\* Two fulfilOrder calls for two different pending orders, started from
\* the same stock and orders and so in flight together, have both
\* succeeded.
BothOrdersServed(p, q) ==
  /\ p # q
  /\ Finished(p) /\ Fulfil(p) /\ result[p] = Ok
  /\ Finished(q) /\ Fulfil(q) /\ result[q] = Ok
  /\ args[p].orderId # args[q].orderId
  /\ pre[p] = pre[q]
  /\ Pending(p) /\ Pending(q)

\* C26: when two fulfilOrder calls for two different orders draw on the
\* same (book, shelf) and run concurrently, then whenever both succeed
\* the stock before both calls covered the quantities of both and the
\* final stock is the stock before both minus the quantities both took.
C26_BothOrdersDecrement ==
  \A p, q \in Procs :
     BothOrdersServed(p, q) =>
        \A c \in Named(p) \cap Named(q) :
           /\ CellSum(Lines(p), c) + CellSum(Lines(q), c) <= pre[p].stock[c]
           /\ stock[c] = pre[p].stock[c] - CellSum(Lines(p), c)
                                         - CellSum(Lines(q), c)

====
